---- MODULE Spec2Model ----
(***************************************************************************)
(* Invoice dashboard: the server actions that create, update and delete    *)
(* invoices (two action modules: the validating one with safeParse and     *)
(* try/catch, and app/lib/actions.ts with parse and no catch) and the      *)
(* edit page that joins two reads (with and without the notFound guard).   *)
(*                                                                         *)
(* Numbers are fixed point: the integer n stands for n / Scale.  A form    *)
(* value is what FormData.get returns: null, or a string.  The amount      *)
(* string is a sequence of characters, parsed as Number() parses it.       *)
(***************************************************************************)
EXTENDS Integers, Sequences, FiniteSets, TLC

VARIABLES table, nextId, today, req, page

vars == <<table, nextId, today, req, page>>

(* ------------------------------ bounds -------------------------------- *)

\* Rows a session of valid writes inserts, and the identifiers it names.
MaxRows == 2

\* Rows a session posting arbitrary forms inserts.
FormRows == 1

\* Calendar days the clock runs through: 1..MaxDay.
MaxDay == 2

\* Decimal places a number carries.
FracDigits == 3

RECURSIVE Pow10(_)
Pow10(n) == IF n = 0 THEN 1 ELSE 10 * Pow10(n - 1)

Scale == Pow10(FracDigits)

Clients == {"A", "B"}

(* --------------------------- form values ------------------------------ *)

Null == [tag |-> "null"]

Str(s) == [tag |-> "str", s |-> s]

IsString(v) == v.tag = "str"

CustomerInputs == {Null, Str(""), Str("c1")}

AmountInputs ==
    { Null,
      Str(<<>>),
      Str(<<"a", "b", "c">>),
      Str(<<"-", "5">>),
      Str(<<"0", ".", "0", "0", "5">>),
      Str(<<"4", "5", ".", "5", "0">>) }

StatusInputs == {Null, Str("pending"), Str("paid"), Str("draft")}

\* Every submission a client can post.
Forms == [customerId : CustomerInputs, amount : AmountInputs, status : StatusInputs]

\* Two submissions that pass both schemas and differ in every field.
FormA ==
    [customerId |-> Str("c1"), amount |-> Str(<<"4", "5", ".", "5", "0">>),
     status |-> Str("pending")]

FormB ==
    [customerId |-> Str("c2"), amount |-> Str(<<"2", "0">>),
     status |-> Str("paid")]

WriteForms == {FormA, FormB}

NoForm == [customerId |-> Null, amount |-> Null, status |-> Null]

(* ----------------------- Number(), z.coerce ---------------------------- *)

Digits == {"0", "1", "2", "3", "4", "5", "6", "7", "8", "9"}

DigitVal(c) ==
    CASE c = "0" -> 0 [] c = "1" -> 1 [] c = "2" -> 2 [] c = "3" -> 3
      [] c = "4" -> 4 [] c = "5" -> 5 [] c = "6" -> 6 [] c = "7" -> 7
      [] c = "8" -> 8 [] c = "9" -> 9

RECURSIVE DigitsValue(_)
DigitsValue(s) ==
    IF s = <<>> THEN 0
    ELSE DigitsValue(SubSeq(s, 1, Len(s) - 1)) * 10 + DigitVal(s[Len(s)])

AllDigits(s) == \A i \in 1..Len(s) : s[i] \in Digits

DotIndex(s) ==
    IF \E i \in 1..Len(s) : s[i] = "."
    THEN CHOOSE i \in 1..Len(s) : s[i] = "." /\ \A j \in 1..(i - 1) : s[j] # "."
    ELSE 0

\* The fraction digits as a count of 1/Scale: "5" is 500, "005" is 5.
FracValue(fp) ==
    LET kept == SubSeq(fp, 1, IF Len(fp) < FracDigits THEN Len(fp) ELSE FracDigits)
    IN  DigitsValue(kept) * Pow10(FracDigits - Len(kept))

NaN == [nan |-> TRUE, v |-> 0]

Num(n) == [nan |-> FALSE, v |-> n]

\* Number(v) of a form value: null is 0, "" is 0, a decimal numeral is its
\* value, anything else is NaN.
ToNumber(v) ==
    IF ~IsString(v) THEN Num(0)
    ELSE IF v.s = <<>> THEN Num(0)
    ELSE LET signed == v.s[1] \in {"-", "+"}
             body == IF signed THEN Tail(v.s) ELSE v.s
             d == DotIndex(body)
             ip == IF d = 0 THEN body ELSE SubSeq(body, 1, d - 1)
             fp == IF d = 0 THEN <<>> ELSE SubSeq(body, d + 1, Len(body))
             mag == DigitsValue(ip) * Scale + FracValue(fp)
         IN  IF ~AllDigits(ip) \/ ~AllDigits(fp) \/ (ip = <<>> /\ fp = <<>>)
             THEN NaN
             ELSE Num(IF v.s[1] = "-" THEN 0 - mag ELSE mag)

(* --------------------------- the schemas ------------------------------- *)

Fields == {"customerId", "amount", "status"}

InvoiceStatuses == {"pending", "paid"}

\* amount * 100
CentsPerUnit == 100

\* z.string({ invalid_type_error }): any string passes, the empty one too.
ZString(v, msg) == IF IsString(v) THEN <<>> ELSE <<msg>>

\* z.coerce.number() on n = Number(v): NaN is not a number.
ZCoerceNumber(n) ==
    IF n.nan THEN <<"Expected number, received nan">> ELSE <<>>

\* .gt(0, { message }), checked once n is a number.
ZGt0(n, msg) ==
    IF ~n.nan /\ ~(n.v > 0) THEN <<msg>> ELSE <<>>

\* z.enum(['pending', 'paid'], { invalid_type_error })
ZEnum(v, msg) ==
    IF ~IsString(v) THEN <<msg>>
    ELSE IF v.s \notin InvoiceStatuses THEN <<"Invalid enum value.">>
    ELSE <<>>

\* The validating module's FormSchema without id and date: the issues of
\* each field.
FormSchema(input) ==
    [customerId |-> ZString(input.customerId, "Please select a customer."),
     amount |-> LET n == ToNumber(input.amount)
                IN  ZCoerceNumber(n)
                      \o ZGt0(n, "Please enter an amount greater than $0."),
     status |-> ZEnum(input.status, "Please select an invoice status.")]

\* app/lib/actions.ts FormSchema without id and date: no .gt(0), default
\* messages.
FormSchemaLib(input) ==
    [customerId |-> ZString(input.customerId, "Expected string, received null"),
     amount |-> ZCoerceNumber(ToNumber(input.amount)),
     status |-> ZEnum(input.status, "Expected 'pending' | 'paid', received null")]

\* schema.safeParse(input), with error.flatten().fieldErrors.
SafeParse(issues, input) ==
    LET failed == {k \in Fields : issues[k] # <<>>}
    IN  IF failed = {}
        THEN [success |-> TRUE,
              data |-> [customerId |-> input.customerId.s,
                        amount |-> ToNumber(input.amount).v,
                        status |-> input.status.s],
              fieldErrors |-> [k \in {} |-> <<>>]]
        ELSE [success |-> FALSE,
              data |-> [customerId |-> "", amount |-> 0, status |-> ""],
              fieldErrors |-> [k \in failed |-> issues[k]]]

\* const amountInCents = amount * 100
AmountInCents(amount) == amount * CentsPerUnit

(* ------------------------- the database -------------------------------- *)

EmptyTable == [i \in {} |-> [undefined |-> TRUE]]

NoStmt ==
    [kind |-> "none", id |-> 0, customer_id |-> "", amount |-> 0,
     status |-> "", date |-> 0]

\* INSERT INTO invoices (customer_id, amount, status, date) VALUES (...)
InsertStmt(customerId, amountInCents, status, date) ==
    [kind |-> "INSERT", id |-> 0, customer_id |-> customerId,
     amount |-> amountInCents, status |-> status, date |-> date]

\* UPDATE invoices SET customer_id = .., amount = .., status = .. WHERE id = ..
UpdateStmt(id, customerId, amountInCents, status) ==
    [kind |-> "UPDATE", id |-> id, customer_id |-> customerId,
     amount |-> amountInCents, status |-> status, date |-> 0]

\* DELETE FROM invoices WHERE id = ..
DeleteStmt(id) ==
    [kind |-> "DELETE", id |-> id, customer_id |-> "", amount |-> 0,
     status |-> "", date |-> 0]

Insert(t, newId, st) ==
    t @@ (newId :> [customer_id |-> st.customer_id, amount |-> st.amount,
                    status |-> st.status, date |-> st.date])

\* UPDATE without its WHERE clause.
UpdateNoWhere(t, st) ==
    [i \in DOMAIN t |->
        [t[i] EXCEPT !.customer_id = st.customer_id,
                     !.amount = st.amount,
                     !.status = st.status]]

Update(t, st) ==
    [i \in DOMAIN t |->
        IF i = st.id
        THEN [t[i] EXCEPT !.customer_id = st.customer_id,
                          !.amount = st.amount,
                          !.status = st.status]
        ELSE t[i]]

Delete(t, st) == [i \in DOMAIN t \ {st.id} |-> t[i]]

\* The table after the statement, and the rows it touched.
Execute(t, newId, st) ==
    CASE st.kind = "INSERT" -> [table |-> Insert(t, newId, st), rowCount |-> 1]
      [] st.kind = "UPDATE" ->
            [table |-> Update(t, st),
             rowCount |-> IF st.id \in DOMAIN t THEN 1 ELSE 0]
      [] st.kind = "DELETE" ->
            [table |-> Delete(t, st),
             rowCount |-> IF st.id \in DOMAIN t THEN 1 ELSE 0]

(* ------------------------- requests ------------------------------------ *)

Undefined == [undefined |-> TRUE]

Idle ==
    [op |-> "none", id |-> 0, form |-> NoForm, pc |-> "idle", stmt |-> NoStmt,
     sql |-> "none", rowCount |-> 0, outcome |-> "none", result |-> Undefined,
     effects |-> <<>>]

CanCall(c) == req[c].pc \in {"idle", "done"}

\* The action returned `result` to its caller.
Returned(q, result) ==
    [q EXCEPT !.pc = "done", !.outcome = "returned", !.result = result]

\* An error left the action uncaught.
Thrown(q) == [q EXCEPT !.pc = "done", !.outcome = "thrown"]

\* The action reached `await sql` with statement st.
Awaiting(q, st) == [q EXCEPT !.pc = "sql", !.stmt = st, !.sql = "pending"]

\* revalidatePath('/dashboard/invoices'); redirect('/dashboard/invoices');
RevalidateAndRedirect(q) ==
    [q EXCEPT !.pc = "done", !.outcome = "redirected",
              !.effects = @ \o <<"revalidatePath", "redirect">>]

Call(op, id, fd) == [Idle EXCEPT !.op = op, !.id = id, !.form = fd]

(* ------------- the validating action module (safeParse, try/catch) ----- *)

createInvoice(c, fd) ==
    /\ CanCall(c)
    /\ LET v == SafeParse(FormSchema(fd), fd)
           q == Call("createInvoice", 0, fd)
       IN  IF ~v.success
           THEN req' = [req EXCEPT ![c] =
                    Returned(q, [errors |-> v.fieldErrors,
                                 message |-> "Missing Fields. Failed to Create Invoice."])]
           ELSE req' = [req EXCEPT ![c] =
                       Awaiting(q, InsertStmt(v.data.customerId,
                                              AmountInCents(v.data.amount),
                                              v.data.status, today))]
    /\ UNCHANGED <<table, nextId, today, page>>

\* After `await sql`: the catch block, or revalidatePath and redirect.
createInvoiceResume(c) ==
    /\ req[c].pc = "settled"
    /\ req[c].op = "createInvoice"
    /\ req' = [req EXCEPT ![c] =
           IF req[c].sql = "error"
           THEN Returned(@, [message |-> "Database Error: Failed to Create Invoice."])
           ELSE RevalidateAndRedirect(@)]
    /\ UNCHANGED <<table, nextId, today, page>>

updateInvoice(c, id, fd) ==
    /\ CanCall(c)
    /\ LET v == SafeParse(FormSchema(fd), fd)
           q == Call("updateInvoice", id, fd)
       IN  req' = [req EXCEPT ![c] =
               IF ~v.success
               THEN Returned(q, [errors |-> v.fieldErrors,
                                 message |-> "Missing Fields. Failed to Update Invoice."])
               ELSE Awaiting(q, UpdateStmt(id, v.data.customerId,
                                           AmountInCents(v.data.amount),
                                           v.data.status))]
    /\ UNCHANGED <<table, nextId, today, page>>

updateInvoiceResume(c) ==
    /\ req[c].pc = "settled"
    /\ req[c].op = "updateInvoice"
    /\ req' = [req EXCEPT ![c] =
           IF req[c].sql = "error"
           THEN Returned(@, [message |-> "Database Error: Failed to Update Invoice."])
           ELSE RevalidateAndRedirect(@)]
    /\ UNCHANGED <<table, nextId, today, page>>

deleteInvoice(c, id) ==
    /\ CanCall(c)
    /\ req' = [req EXCEPT ![c] =
           Awaiting(Call("deleteInvoice", id, NoForm), DeleteStmt(id))]
    /\ UNCHANGED <<table, nextId, today, page>>

\* deleteInvoice reporting a DELETE that matched no row as a failure.
deleteInvoiceResumeStrict(c) ==
    /\ req[c].pc = "settled"
    /\ req[c].op = "deleteInvoice"
    /\ req' = [req EXCEPT ![c] =
           IF req[c].sql = "error" \/ req[c].rowCount = 0
           THEN Returned(@, [message |-> "Database Error: Failed to Delete Invoice."])
           ELSE Returned([@ EXCEPT !.effects = @ \o <<"revalidatePath">>],
                         [message |-> "Deleted Invoice."])]
    /\ UNCHANGED <<table, nextId, today, page>>

\* Inside the try: revalidatePath and the success message; the catch block
\* otherwise.
deleteInvoiceResume(c) ==
    /\ req[c].pc = "settled"
    /\ req[c].op = "deleteInvoice"
    /\ req' = [req EXCEPT ![c] =
           IF req[c].sql = "error"
           THEN Returned(@, [message |-> "Database Error: Failed to Delete Invoice."])
           ELSE Returned([@ EXCEPT !.effects = @ \o <<"revalidatePath">>],
                         [message |-> "Deleted Invoice."])]
    /\ UNCHANGED <<table, nextId, today, page>>

(* ------------- app/lib/actions.ts (parse, no try/catch) ---------------- *)

createInvoiceLib(c, fd) ==
    /\ CanCall(c)
    /\ LET v == SafeParse(FormSchemaLib(fd), fd)
           q == Call("createInvoiceLib", 0, fd)
       IN  IF ~v.success
           THEN req' = [req EXCEPT ![c] = Thrown(q)]
           ELSE req' = [req EXCEPT ![c] =
                       Awaiting(q, InsertStmt(v.data.customerId,
                                              AmountInCents(v.data.amount),
                                              v.data.status, today))]
    /\ UNCHANGED <<table, nextId, today, page>>

createInvoiceLibResume(c) ==
    /\ req[c].pc = "settled"
    /\ req[c].op = "createInvoiceLib"
    /\ req' = [req EXCEPT ![c] =
           IF req[c].sql = "error" THEN Thrown(@) ELSE RevalidateAndRedirect(@)]
    /\ UNCHANGED <<table, nextId, today, page>>

updateInvoiceLib(c, id, fd) ==
    /\ CanCall(c)
    /\ LET v == SafeParse(FormSchemaLib(fd), fd)
           q == Call("updateInvoiceLib", id, fd)
       IN  req' = [req EXCEPT ![c] =
               IF ~v.success
               THEN Thrown(q)
               ELSE Awaiting(q, UpdateStmt(id, v.data.customerId,
                                           AmountInCents(v.data.amount),
                                           v.data.status))]
    /\ UNCHANGED <<table, nextId, today, page>>

updateInvoiceLibResume(c) ==
    /\ req[c].pc = "settled"
    /\ req[c].op = "updateInvoiceLib"
    /\ req' = [req EXCEPT ![c] =
           IF req[c].sql = "error" THEN Thrown(@) ELSE RevalidateAndRedirect(@)]
    /\ UNCHANGED <<table, nextId, today, page>>

deleteInvoiceLib(c, id) ==
    /\ CanCall(c)
    /\ req' = [req EXCEPT ![c] =
           Awaiting(Call("deleteInvoiceLib", id, NoForm), DeleteStmt(id))]
    /\ UNCHANGED <<table, nextId, today, page>>

\* revalidatePath, and the function ends without a value.
deleteInvoiceLibResume(c) ==
    /\ req[c].pc = "settled"
    /\ req[c].op = "deleteInvoiceLib"
    /\ req' = [req EXCEPT ![c] =
           IF req[c].sql = "error"
           THEN Thrown(@)
           ELSE Returned([@ EXCEPT !.effects = @ \o <<"revalidatePath">>], Undefined)]
    /\ UNCHANGED <<table, nextId, today, page>>

(* ------------- the statement at the database --------------------------- *)

\* An UPDATE sent as two statements: customer and amount, then status.
SqlExecuteSplit(c) ==
    /\ req[c].pc = "sql"
    /\ IF req[c].stmt.kind = "UPDATE" /\ req[c].sql = "pending"
       THEN /\ table' = [i \in DOMAIN table |->
                    IF i = req[c].stmt.id
                    THEN [table[i] EXCEPT !.customer_id = req[c].stmt.customer_id,
                                          !.amount = req[c].stmt.amount]
                    ELSE table[i]]
            /\ nextId' = nextId
            /\ req' = [req EXCEPT ![c] = [@ EXCEPT !.sql = "partial"]]
       ELSE LET e == Execute(table, nextId, req[c].stmt)
                inserted == req[c].stmt.kind = "INSERT"
            IN  /\ table' = e.table
                /\ nextId' = IF inserted THEN nextId + 1 ELSE nextId
                /\ req' = [req EXCEPT ![c] =
                       [@ EXCEPT !.pc = "settled", !.sql = "ok",
                                 !.rowCount = e.rowCount,
                                 !.id = IF inserted THEN nextId ELSE @,
                                 !.effects = @ \o <<"sql">>]]
    /\ UNCHANGED <<today, page>>

\* The awaited statement runs, as one statement, and resolves.
SqlExecute(c) ==
    /\ req[c].pc = "sql"
    /\ LET e == Execute(table, nextId, req[c].stmt)
           inserted == req[c].stmt.kind = "INSERT"
       IN  /\ table' = e.table
           /\ nextId' = IF inserted THEN nextId + 1 ELSE nextId
           /\ req' = [req EXCEPT ![c] =
                  [@ EXCEPT !.pc = "settled", !.sql = "ok",
                            !.rowCount = e.rowCount,
                            !.id = IF inserted THEN nextId ELSE @,
                            !.effects = @ \o <<"sql">>]]
    /\ UNCHANGED <<today, page>>

\* The awaited statement throws and the table is as it was.
SqlFail(c) ==
    /\ req[c].pc = "sql"
    /\ req' = [req EXCEPT ![c] = [@ EXCEPT !.pc = "settled", !.sql = "error"]]
    /\ UNCHANGED <<table, nextId, today, page>>

\* new Date() moves on to the next day.
Tick ==
    /\ today < MaxDay
    /\ today' = today + 1
    /\ UNCHANGED <<table, nextId, req, page>>

(* ------------- the edit page ------------------------------------------- *)

Customers == {"c1", "c2"}

NoFetch == [st |-> "none", val |-> Undefined]

Pending == [st |-> "pending", val |-> Undefined]

PageIdle ==
    [variant |-> "none", id |-> 0, pc |-> "idle", invoice |-> NoFetch,
     customers |-> NoFetch, view |-> "none", props |-> Undefined]

\* Promise.all([fetchInvoiceById(id), fetchCustomers()]): both reads start
\* before the await.
StartFetches(variant, id) ==
    [PageIdle EXCEPT !.variant = variant, !.id = id, !.pc = "loading",
                     !.invoice = Pending, !.customers = Pending]

\* Awaiting the invoice read alone.
PromiseFirst(a, b) == IF a.st \in {"rejected", "fulfilled"} THEN a.st ELSE "pending"

\* The promise Promise.all returns: rejected as soon as one input is,
\* fulfilled once both are.
PromiseAll(a, b) ==
    IF a.st = "rejected" \/ b.st = "rejected" THEN "rejected"
    ELSE IF a.st = "fulfilled" /\ b.st = "fulfilled" THEN "fulfilled"
    ELSE "pending"

\* <Breadcrumbs .. /> <Form invoice={invoice} customers={customers} />
RenderForm(p) ==
    [p EXCEPT !.pc = "done", !.view = "form",
              !.props = [invoice |-> p.invoice.val, customers |-> p.customers.val]]

RenderError(p) == [p EXCEPT !.pc = "done", !.view = "error"]

\* notFound()
NotFound(p) == [p EXCEPT !.pc = "done", !.view = "notFound"]

\* The page with the notFound guard.
Page(id) ==
    /\ page.pc \in {"idle", "done"}
    /\ page' = StartFetches("guarded", id)
    /\ UNCHANGED <<table, nextId, today, req>>

PageResume ==
    /\ page.pc = "loading"
    /\ page.variant = "guarded"
    /\ PromiseAll(page.invoice, page.customers) # "pending"
    /\ page' = IF PromiseAll(page.invoice, page.customers) = "rejected"
               THEN RenderError(page)
               ELSE IF page.invoice.val = Undefined THEN NotFound(page)
               ELSE RenderForm(page)
    /\ UNCHANGED <<table, nextId, today, req>>

\* The page without the guard.
PageUnguarded(id) ==
    /\ page.pc \in {"idle", "done"}
    /\ page' = StartFetches("unguarded", id)
    /\ UNCHANGED <<table, nextId, today, req>>

PageUnguardedResume ==
    /\ page.pc = "loading"
    /\ page.variant = "unguarded"
    /\ PromiseAll(page.invoice, page.customers) # "pending"
    /\ page' = IF PromiseAll(page.invoice, page.customers) = "rejected"
               THEN RenderError(page)
               ELSE RenderForm(page)
    /\ UNCHANGED <<table, nextId, today, req>>

\* fetchInvoiceById(id) resolves: the row, or no record.
FetchInvoiceByIdResolve ==
    /\ page.invoice.st = "pending"
    /\ page' = [page EXCEPT !.invoice =
           [st |-> "fulfilled",
            val |-> IF page.id \in DOMAIN table
                    THEN [id |-> page.id, row |-> table[page.id]]
                    ELSE Undefined]]
    /\ UNCHANGED <<table, nextId, today, req>>

FetchInvoiceByIdReject ==
    /\ page.invoice.st = "pending"
    /\ page' = [page EXCEPT !.invoice = [st |-> "rejected", val |-> Undefined]]
    /\ UNCHANGED <<table, nextId, today, req>>

FetchCustomersResolve ==
    /\ page.customers.st = "pending"
    /\ page' = [page EXCEPT !.customers = [st |-> "fulfilled", val |-> Customers]]
    /\ UNCHANGED <<table, nextId, today, req>>

FetchCustomersReject ==
    /\ page.customers.st = "pending"
    /\ page' = [page EXCEPT !.customers = [st |-> "rejected", val |-> Undefined]]
    /\ UNCHANGED <<table, nextId, today, req>>

(* ------------- specifications ------------------------------------------ *)

Init ==
    /\ table = EmptyTable
    /\ nextId = 1
    /\ today = 1
    /\ req = [c \in Clients |-> Idle]
    /\ page = PageIdle

\* One client posting any form to any action, one request at a time.
Next ==
    \/ Tick
    \/ \E fd \in Forms : nextId <= FormRows /\ createInvoice("A", fd)
    \/ \E fd \in Forms, id \in 1..FormRows : updateInvoice("A", id, fd)
    \/ \E id \in 1..FormRows : deleteInvoice("A", id)
    \/ createInvoiceResume("A")
    \/ updateInvoiceResume("A")
    \/ deleteInvoiceResume("A")
    \/ \E fd \in Forms : nextId <= FormRows /\ createInvoiceLib("A", fd)
    \/ \E fd \in Forms, id \in 1..FormRows : updateInvoiceLib("A", id, fd)
    \/ \E id \in 1..FormRows : deleteInvoiceLib("A", id)
    \/ createInvoiceLibResume("A")
    \/ updateInvoiceLibResume("A")
    \/ deleteInvoiceLibResume("A")
    \/ SqlExecute("A")
    \/ SqlFail("A")

Spec == Init /\ [][Next]_vars

\* One client posting valid forms, up to MaxRows rows.
NextWrite ==
    \/ Tick
    \/ \E fd \in WriteForms : nextId <= MaxRows /\ createInvoice("A", fd)
    \/ \E fd \in WriteForms, id \in 1..MaxRows : updateInvoice("A", id, fd)
    \/ \E id \in 1..MaxRows : deleteInvoice("A", id)
    \/ createInvoiceResume("A")
    \/ updateInvoiceResume("A")
    \/ deleteInvoiceResume("A")
    \/ \E fd \in WriteForms : nextId <= MaxRows /\ createInvoiceLib("A", fd)
    \/ \E fd \in WriteForms, id \in 1..MaxRows : updateInvoiceLib("A", id, fd)
    \/ \E id \in 1..MaxRows : deleteInvoiceLib("A", id)
    \/ createInvoiceLibResume("A")
    \/ updateInvoiceLibResume("A")
    \/ deleteInvoiceLibResume("A")
    \/ SqlExecute("A")
    \/ SqlFail("A")

SpecWrite == Init /\ [][NextWrite]_vars

\* The table after createInvoice(FormA) on day 1.
SeedTable ==
    Insert(EmptyTable, 1,
           InsertStmt(FormA.customerId.s, AmountInCents(ToNumber(FormA.amount).v),
                      FormA.status.s, 1))

InitRace ==
    /\ table = SeedTable
    /\ nextId = 2
    /\ today = 1
    /\ req = [c \in Clients |-> Idle]
    /\ page = PageIdle

\* Two clients whose updates and deletes interleave at the awaits.
NextRace ==
    \E c \in Clients :
        \/ \E fd \in WriteForms, id \in 1..MaxRows : updateInvoice(c, id, fd)
        \/ \E id \in 1..MaxRows : deleteInvoice(c, id)
        \/ updateInvoiceResume(c)
        \/ deleteInvoiceResume(c)
        \/ SqlExecute(c)
        \/ SqlFail(c)

SpecRace == InitRace /\ [][NextRace]_vars

InitPage ==
    /\ table \in {EmptyTable, SeedTable}
    /\ nextId = 2
    /\ today = 1
    /\ req = [c \in Clients |-> Idle]
    /\ page = PageIdle

\* Edit page requests and the completions of their two reads, while a
\* client deletes invoices.
NextPage ==
    \/ \E id \in 1..MaxRows : Page(id)
    \/ \E id \in 1..MaxRows : PageUnguarded(id)
    \/ PageResume
    \/ PageUnguardedResume
    \/ FetchInvoiceByIdResolve
    \/ FetchInvoiceByIdReject
    \/ FetchCustomersResolve
    \/ FetchCustomersReject
    \/ \E id \in 1..MaxRows : deleteInvoice("A", id)
    \/ deleteInvoiceResume("A")
    \/ SqlExecute("A")
    \/ SqlFail("A")

SpecPage == InitPage /\ [][NextPage]_vars

(* ------------- what the claims speak of -------------------------------- *)

FormOps == {"createInvoice", "updateInvoice", "createInvoiceLib", "updateInvoiceLib"}

DeleteOps == {"deleteInvoice", "deleteInvoiceLib"}

MissingFieldsMessage(op) ==
    IF op \in {"createInvoice", "createInvoiceLib"}
    THEN "Missing Fields. Failed to Create Invoice."
    ELSE "Missing Fields. Failed to Update Invoice."

DatabaseErrorMessage(op) ==
    IF op \in {"createInvoice", "createInvoiceLib"}
    THEN "Database Error: Failed to Create Invoice."
    ELSE IF op \in DeleteOps THEN "Database Error: Failed to Delete Invoice."
    ELSE "Database Error: Failed to Update Invoice."

\* The amount field coerces to a number <= 0.
AmountNotPositive(fd) == ~ToNumber(fd.amount).nan /\ ToNumber(fd.amount).v <= 0

\* customerId is null or the empty string.
CustomerAbsent(fd) == ~IsString(fd.customerId) \/ fd.customerId.s = ""

\* Math.round to whole cents.
RoundToCents(v) == ((v + Scale \div 2) \div Scale) * Scale

HasFieldError(q, k) ==
    /\ q.outcome = "returned"
    /\ "errors" \in DOMAIN q.result
    /\ k \in DOMAIN q.result.errors

\* The step in which client c's statement runs and resolves.
ExecStep(c) == req[c].pc = "sql" /\ req'[c].pc = "settled" /\ req'[c].sql = "ok"

\* The step in which client c's action runs on after its await.
ResumeStep(c) == req[c].pc = "settled" /\ req'[c].pc = "done"

\* customer reference, amount and status, as one value.
Triple(r) == <<r.customer_id, r.amount, r.status>>

(* ------------- claims --------------------------------------------------- *)

\* C1: every createInvoice or updateInvoice submission whose amount coerces
\* to a number <= 0 returns a field error on amount with the "Missing Fields"
\* message, and issues no statement, no invalidation and no redirect.
C1_NonPositiveAmountRejected ==
    \A c \in Clients :
        (req[c].op \in FormOps /\ AmountNotPositive(req[c].form))
            => /\ HasFieldError(req[c], "amount")
               /\ req[c].result.message = MissingFieldsMessage(req[c].op)
               /\ req[c].sql = "none"
               /\ req[c].effects = <<>>

\* C2: {customerId: "", amount: "-5", status: "paid"} posted to the create
\* action returns errors for customerId and amount only and inserts nothing;
\* every submission with customerId null or "" returns a field error on
\* customerId.
C2_AbsentCustomerRejected ==
    \A c \in Clients :
        req[c].op = "createInvoice" =>
            /\ CustomerAbsent(req[c].form) => HasFieldError(req[c], "customerId")
            /\ req[c].form = [customerId |-> Str(""), amount |-> Str(<<"-", "5">>),
                              status |-> Str("paid")]
                 => /\ req[c].outcome = "returned"
                    /\ "errors" \in DOMAIN req[c].result
                    /\ DOMAIN req[c].result.errors = {"customerId", "amount"}
                    /\ req[c].sql = "none"

\* C3: when the write statement of createInvoice or updateInvoice throws, the
\* action catches it and returns only the "Database Error" message: nothing
\* is thrown to the caller, and there is no invalidation and no redirect.
C3_WriteFailureCaught ==
    \A c \in Clients :
        (req[c].op \in FormOps /\ req[c].sql = "error" /\ req[c].pc = "done")
            => /\ req[c].outcome = "returned"
               /\ req[c].result = [message |-> DatabaseErrorMessage(req[c].op)]
               /\ req[c].effects = <<>>

\* C4: a valid create submission whose write succeeds inserts one row with
\* the submitted customer and status, amount = round(a * 100) whole cents and
\* the date of the call; the invalidation comes after the insert, the
\* redirect after the invalidation, and nothing is returned.
C4_CreateInsertsRoundedCents ==
    \A c \in Clients :
        (req[c].op = "createInvoice" /\ req[c].sql = "ok")
            => /\ req[c].id \in DOMAIN table
               /\ nextId = req[c].id + 1
               /\ table[req[c].id] =
                      [customer_id |-> req[c].form.customerId.s,
                       amount |-> RoundToCents(
                                      AmountInCents(ToNumber(req[c].form.amount).v)),
                       status |-> req[c].form.status.s,
                       date |-> req[c].stmt.date]
               /\ req[c].stmt.date <= today
               /\ req[c].pc = "settled" => req[c].effects = <<"sql">>
               /\ req[c].pc = "done"
                    => /\ req[c].effects = <<"sql", "revalidatePath", "redirect">>
                       /\ req[c].outcome = "redirected"
                       /\ req[c].result = Undefined

\* C8: after any sequence of create, update and delete calls every invoice
\* row has amount > 0 and status pending or paid.
C8_RowsPositiveAndEnumerated ==
    \A i \in DOMAIN table :
        table[i].amount > 0 /\ table[i].status \in InvoiceStatuses

\* The DELETE of client c's request matched no row.
NoMatch(q) == q.id \notin DOMAIN table /\ (q.sql = "ok" => q.rowCount = 0)

C9_UpdateFrame ==
    [][\A c \in Clients :
          (ExecStep(c) /\ req[c].op \in {"updateInvoice", "updateInvoiceLib"})
              => /\ DOMAIN table' = DOMAIN table
                 /\ nextId' = nextId
                 /\ \A i \in DOMAIN table :
                        IF i = req[c].id
                        THEN table'[i] =
                                 [customer_id |-> req[c].form.customerId.s,
                                  amount |-> AmountInCents(ToNumber(req[c].form.amount).v),
                                  status |-> req[c].form.status.s,
                                  date |-> table[i].date]
                        ELSE table'[i] = table[i]
                 /\ req[c].id \notin DOMAIN table
                      => table' = table /\ req'[c].rowCount = 0
      ]_vars

\* C9 witness: an update has redirected after changing one of two rows, on a
\* later day than that row's date, and the other row holds other values.
C9_Witness ==
    \E c \in Clients :
        /\ req[c].op \in {"updateInvoice", "updateInvoiceLib"}
        /\ req[c].outcome = "redirected"
        /\ req[c].rowCount = 1
        /\ req[c].id \in DOMAIN table
        /\ Triple(table[req[c].id]) = Triple(req[c].stmt)
        /\ table[req[c].id].date < today
        /\ \E j \in DOMAIN table :
               j # req[c].id /\ Triple(table[j]) # Triple(req[c].stmt)

\* What a whole submission, or the seeded row, puts in a row.
WholeTriples ==
    {Triple(SeedTable[1])}
        \cup {<<fd.customerId.s, AmountInCents(ToNumber(fd.amount).v), fd.status.s>> :
                 fd \in WriteForms}

NoMix == \A i \in DOMAIN table : Triple(table[i]) \in WholeTriples

\* C10: with updates and deletes of two clients interleaving, the table
\* changes only when a statement runs; an update's statement puts all three
\* of its values in the row at once, so a row never mixes two submissions
\* and holds those of the statement that ran last; an update whose statement
\* runs when the row is gone changes nothing, and the action still
\* invalidates the listing and redirects.
C10_LastWriteWins ==
    [][/\ NoMix'
       /\ table' # table => \E c \in Clients : ExecStep(c)
       /\ \A c \in Clients :
              /\ (ExecStep(c) /\ req[c].op = "updateInvoice")
                    => IF req[c].id \in DOMAIN table
                       THEN /\ DOMAIN table' = DOMAIN table
                            /\ Triple(table'[req[c].id]) =
                                   <<req[c].form.customerId.s,
                                     AmountInCents(ToNumber(req[c].form.amount).v),
                                     req[c].form.status.s>>
                       ELSE table' = table /\ req'[c].rowCount = 0
              /\ (ResumeStep(c) /\ req[c].op = "updateInvoice" /\ req[c].sql = "ok")
                    => /\ req'[c].outcome = "redirected"
                       /\ req'[c].effects = <<"sql", "revalidatePath", "redirect">>
      ]_vars

\* C10 witness: both clients' updates of the same row, with different
\* values, have run, and the row holds the values of one of them.
C10_Witness ==
    /\ req["A"].op = "updateInvoice" /\ req["B"].op = "updateInvoice"
    /\ req["A"].id = req["B"].id
    /\ req["A"].sql = "ok" /\ req["B"].sql = "ok"
    /\ req["A"].rowCount = 1 /\ req["B"].rowCount = 1
    /\ Triple(req["A"].stmt) # Triple(req["B"].stmt)
    /\ req["A"].id \in DOMAIN table
    /\ Triple(table[req["A"].id]) = Triple(req["B"].stmt)

\* C6: a page whose two reads resolved renders the not-found view when the
\* invoice read found no record, and the form only with a record.
C6_MissingInvoiceIsNotFound ==
    (page.pc = "done" /\ page.view # "error")
        => /\ page.view \in {"notFound", "form"}
           /\ page.view = "form" <=> page.invoice.val # Undefined

\* C7: both reads are started together; the form or the not-found view is
\* rendered only once both have resolved, and a page one of whose reads
\* rejected ends in the error view.
C7_JoinBeforeRender ==
    /\ page.pc # "idle" => page.invoice.st # "none" /\ page.customers.st # "none"
    /\ page.view \in {"form", "notFound"}
         => page.invoice.st = "fulfilled" /\ page.customers.st = "fulfilled"
    /\ (page.pc = "done"
          /\ (page.invoice.st = "rejected" \/ page.customers.st = "rejected"))
         => page.view = "error"

\* C7 witness: the invoice read resolved with a record, the customer read
\* rejected, and the guarded page ended in the error view.
C7_Witness ==
    /\ page.variant = "guarded"
    /\ page.invoice.st = "fulfilled"
    /\ page.invoice.val # Undefined
    /\ page.customers.st = "rejected"
    /\ page.pc = "done"
    /\ page.view = "error"

====
